---- MODULE Spec2Model ----
(***************************************************************************)
(* Model of packaging/language/mvn_get.py: the Maven coordinate model      *)
(* (class Artifact), the downloader (class MavenDownloader) and the        *)
(* parameter ingestion of main().                                          *)
(*                                                                         *)
(* Strings are sequences of tokens: ":" "." "/" "-" are the separators the *)
(* code splits and joins on, every other token stands for a run of         *)
(* ordinary characters.  Python's None is the distinguished value None.    *)
(***************************************************************************)
EXTENDS Integers, Sequences, FiniteSets, TLC

VARIABLES
    p,           \* module.params (name, version, classifier, extension, ...)
    check_mode,  \* module.check_mode of the running invocation
    dest_is,     \* what the dest parameter names on the filesystem
    file,        \* the target file: whether it exists, and its contents
    remote,      \* the repository: artifact bytes, text of the .md5 sidecar, metadata
    pc,          \* position of the running invocation
    artifact,    \* the Artifact object of the invocation
    url,         \* download()'s local url
    log,         \* network requests and file operations of the invocation, in order
    outcome,     \* what the invocation ended with (exit_json / fail_json / traceback)
    before,      \* the target file when the invocation started
    prev,        \* how the previous invocation ended
    origin       \* the coordinate string first given

vars == <<p, check_mode, dest_is, file, remote, pc, artifact, url, log,
          outcome, before, prev, origin>>

-----------------------------------------------------------------------------
(* Bounds *)

\* longest coordinate string examined, in tokens
MaxLen == 9
\* longest artifact body, in bytes
MaxBytes == 2
\* most <version> elements in a metadata document
MaxVersions == 2
\* most <snapshotVersion> elements in a metadata document
MaxEntries == 2

-----------------------------------------------------------------------------
(* Python values *)

None == <<"None">>

\* truth value of an optional string: None and '' are false
truthy(x) == x # None /\ x # <<>>

\* x or y
py_or(x, y) == IF truthy(x) THEN x ELSE y

Ok(v) == [raised |-> "", value |-> v]
Raise(kind) == [raised |-> kind, value |-> None]

\* str.split(':')
RECURSIVE split(_, _)
split(s, sep) ==
    IF \A i \in 1..Len(s) : s[i] # sep
    THEN <<s>>
    ELSE LET i == CHOOSE k \in 1..Len(s) : s[k] = sep /\ \A j \in 1..(k - 1) : s[j] # sep
         IN  <<SubSeq(s, 1, i - 1)>> \o split(SubSeq(s, i + 1, Len(s)), sep)

\* sep.join(a), a TypeError when an item is None
RECURSIVE join(_, _)
join(sep, a) ==
    IF \E i \in 1..Len(a) : a[i] = None THEN Raise("TypeError")
    ELSE IF Len(a) = 0 THEN Ok(<<>>)
    ELSE IF Len(a) = 1 THEN Ok(a[1])
    ELSE Ok(a[1] \o <<sep>> \o join(sep, Tail(a)).value)

\* str.replace(old, new) for one-token old and new
replace(s, old, new) == [i \in 1..Len(s) |-> IF s[i] = old THEN new ELSE s[i]]

\* str.endswith(suffix) for a one-token suffix
endswith(s, suffix) == Len(s) > 0 /\ s[Len(s)] = suffix

-----------------------------------------------------------------------------
(* class Artifact *)

\* Artifact.__init__
Artifact(group_id, artifact_id, version, classifier, extension) ==
    IF ~truthy(group_id) \/ ~truthy(artifact_id)
    THEN Raise("ArtifactError")
    ELSE Ok([group_id |-> group_id, artifact_id |-> artifact_id, version |-> version,
             classifier |-> classifier, extension |-> extension])

\* Artifact.is_snapshot; None has no endswith
is_snapshot(a) ==
    IF a.version = None THEN Raise("AttributeError")
    ELSE Ok(endswith(a.version, "SNAPSHOT"))

\* Artifact.path
path(a, with_version) ==
    replace(a.group_id, ".", "/") \o <<"/">> \o a.artifact_id
        \o (IF with_version THEN <<"/">> \o a.version ELSE <<>>)

\* Artifact.filename
filename(a) ==
    a.artifact_id \o (IF truthy(a.classifier) THEN <<"-">> \o a.classifier ELSE <<>>)
        \o <<".">> \o a.extension

\* __str__ that emits the extension whatever it is
Artifact_str_always_extension(a) ==
    join(":", <<a.group_id, a.artifact_id, a.extension>>
              \o (IF truthy(a.classifier) THEN <<a.classifier>> ELSE <<>>)
              \o (IF truthy(a.version) THEN <<a.version>> ELSE <<>>))

\* Artifact.__str__
Artifact_str(a) ==
    join(":", <<a.group_id, a.artifact_id>>
              \o (IF a.extension # <<"jar">> \/ truthy(a.classifier)
                  THEN <<a.extension>> ELSE <<>>)
              \o (IF truthy(a.classifier) THEN <<a.classifier>> ELSE <<>>)
              \o (IF truthy(a.version) THEN <<a.version>> ELSE <<>>))

\* parse that takes the version from the third segment, not the last
Artifact_parse_third(input) ==
    LET parts == split(input, ":")
        n == Len(parts)
    IN  IF n < 2 THEN Raise("ArtifactError")
        ELSE Artifact(parts[1], parts[2],
                      IF n >= 3 THEN parts[3] ELSE None,
                      IF n >= 5 THEN parts[4] ELSE None,
                      IF n >= 4 THEN parts[3] ELSE None)

\* Artifact.parse
Artifact_parse(input) ==
    LET parts == split(input, ":")
        n == Len(parts)
    IN  IF n < 2 THEN Raise("ArtifactError")
        ELSE Artifact(parts[1], parts[2],
                      IF n >= 3 THEN parts[n] ELSE None,
                      IF n >= 5 THEN parts[4] ELSE None,
                      IF n >= 4 THEN parts[3] ELSE None)

\* main(): the Artifact built from module.params
main_artifact(params) ==
    IF truthy(params.name)
    THEN LET parsed == Artifact_parse(params.name)
         IN  IF parsed.raised # "" THEN parsed
             ELSE Ok([parsed.value EXCEPT
                        !.version = py_or(@, params.version),
                        !.classifier = py_or(@, params.classifier),
                        !.extension = py_or(@, params.extension)])
    ELSE Artifact(params.group_id, params.artifact_id, params.version,
                  params.classifier, params.extension)

-----------------------------------------------------------------------------
(* The repository and the filesystem *)

\* artifact bodies: byte strings of up to MaxBytes bytes
Bodies == UNION {[1..n -> {"b"}] : n \in 0..MaxBytes}

\* hashlib.md5().hexdigest() of a file body: one digest text per body
local_md5(data) == <<"md5of">> \o data

\* texts a repository serves at {uri}.md5: a bare digest, or one followed by a newline
SidecarTexts == {local_md5(c) : c \in Bodies} \cup {local_md5(c) \o <<"\n">> : c \in Bodies}

NoFile == [exists |-> FALSE, data |-> <<>>]
FileOf(data) == [exists |-> TRUE, data |-> data]

\* <version> texts of a maven-metadata.xml; an empty element has text None
VersionTexts == {<<"1.0">>, <<"2.0", "-", "SNAPSHOT">>, None}
VersionLists == UNION {[1..n -> VersionTexts] : n \in 0..MaxVersions}

\* <snapshotVersion> elements; findtext gives None for a missing child
SnapshotVersions ==
    [extension : {<<"jar">>, <<"war">>}, classifier : {None, <<"src">>},
     value : {None, <<"t1">>, <<"t2">>}]
SnapshotLists == UNION {[1..n -> SnapshotVersions] : n \in 0..MaxEntries}

-----------------------------------------------------------------------------
(* class MavenDownloader *)

\* MavenDownloader.__init__: the base URL without its trailing slash
base(repo_url) ==
    IF endswith(repo_url, "/") THEN SubSeq(repo_url, 1, Len(repo_url) - 1) ELSE repo_url

\* [e for e in elems if cond(e)]
RECURSIVE filter_ext(_, _)
filter_ext(elems, ext) ==
    IF elems = <<>> THEN <<>>
    ELSE (IF Head(elems).extension = ext THEN <<Head(elems)>> ELSE <<>>)
         \o filter_ext(Tail(elems), ext)

RECURSIVE filter_classifier(_, _)
filter_classifier(elems, c) ==
    IF elems = <<>> THEN <<>>
    ELSE (IF Head(elems).classifier = c THEN <<Head(elems)>> ELSE <<>>)
         \o filter_classifier(Tail(elems), c)

\* MavenDownloader._uri_for_artifact (a.version is a string here)
uri_for_artifact(repo_url, a, version) ==
    IF is_snapshot(a).value /\ ~truthy(version) THEN Raise("ArtifactError")
    ELSE LET v == IF ~is_snapshot(a).value THEN a.version ELSE version
         IN  Ok(base(repo_url) \o <<"/">> \o path(a, TRUE) \o <<"/">> \o a.artifact_id
                \o <<"-">> \o v
                \o (IF truthy(a.classifier) THEN <<"-">> \o a.classifier ELSE <<>>)
                \o <<".">> \o a.extension)

\* _find_matching_artifact that takes the last surviving element
find_matching_artifact_last(repo_url, elems, a) ==
    LET by_ext == filter_ext(elems, a.extension)
        filtered == IF truthy(a.classifier) THEN filter_classifier(by_ext, a.classifier)
                    ELSE by_ext
    IN  IF Len(filtered) = 0 THEN Raise("ArtifactError")
        ELSE uri_for_artifact(repo_url, a, filtered[Len(filtered)].value)

\* MavenDownloader._find_matching_artifact
find_matching_artifact(repo_url, elems, a) ==
    LET by_ext == filter_ext(elems, a.extension)
        filtered == IF truthy(a.classifier) THEN filter_classifier(by_ext, a.classifier)
                    ELSE by_ext
    IN  IF Len(filtered) = 0 THEN Raise("ArtifactError")
        ELSE uri_for_artifact(repo_url, a, filtered[1].value)

\* xml.findall('./versioning/versions/version')[-1].text
latest_version(versions) ==
    IF Len(versions) = 0 THEN Raise("IndexError") ELSE Ok(versions[Len(versions)])

\* the URL of maven-metadata.xml for the artifact
metadata_url(repo_url, a, with_version) ==
    base(repo_url) \o <<"/">> \o path(a, with_version) \o <<"/", "maven-metadata.xml">>

\* path.isdir(dest)
isdir_dest == dest_is = "dir"

\* a parent directory taken to exist without looking
isdir_dirname_unchecked == TRUE

\* path.isdir(path.dirname(dest))
isdir_dirname == dest_is # "orphan"

\* a file taken to exist without looking
exists_unchecked(f) == TRUE

\* path.exists(file)
exists(f) == f.exists

\* a comparison of the digests the wrong way round
same_md5_inverted(local, text) == local # text

\* _is_same_md5: local_md5 == remote
same_md5(local, text) == local = text

\* download(): dest, or the file in the directory dest
target(a) == IF isdir_dest THEN p.dest \o <<"/">> \o filename(a) ELSE p.dest

-----------------------------------------------------------------------------
(* main() and the steps of MavenDownloader.download *)

NoArtifact == [group_id |-> None, artifact_id |-> None, version |-> None,
               classifier |-> None, extension |-> None]

NoOutcome == [status |-> "", changed |-> FALSE, raised |-> "", url |-> <<>>, msg |-> "",
              path |-> <<>>, name |-> <<>>]

\* main(): an Error, ArtifactError or DownloaderError ends in fail_json (the last with
\* e.url), any other exception in a traceback
fail(exc, u, failmsg) ==
    [NoOutcome EXCEPT
        !.status = IF exc \in {"Error", "ArtifactError", "DownloaderError"}
                   THEN "fail_json" ELSE "traceback",
        !.raised = exc,
        !.url = IF exc = "DownloaderError" THEN u ELSE <<>>,
        !.msg = IF exc = "DownloaderError" THEN failmsg ELSE ""]

\* download(): return dict(changed=..., **info)
exit_json(changed) ==
    [NoOutcome EXCEPT !.status = "exit_json", !.changed = changed, !.url = url,
                      !.path = target(artifact), !.name = Artifact_str(artifact).value]

\* what urlopen and the reading of a response can do
Network == {"ok", "urlopen_error", "read_error"}

\* how an invocation is remembered by the next: a download that was not a dry run and
\* returned a result, and the URL it downloaded from
summary ==
    IF outcome.status = "exit_json" /\ ~check_mode
    THEN [succeeded |-> TRUE, url |-> url]
    ELSE [succeeded |-> FALSE, url |-> <<>>]

\* MavenDownloader._request: the exception a failed request ends in
request_raises(net) ==
    IF net = "urlopen_error" THEN "DownloaderError"
    ELSE IF net = "read_error" THEN "socket.error"
    ELSE ""

GET(u, net) == [op |-> "GET", target |-> u, result |-> net]
Read(u, net) == [op |-> "read", target |-> u, result |-> net]
FileOp(op, result) == [op |-> op, target |-> target(artifact), result |-> result]

\* main() up to the call of download()
main(cm) ==
    /\ check_mode' = cm
    /\ before' = file
    /\ log' = <<>>
    /\ url' = <<>>
    /\ LET a == main_artifact(p)
       IN  IF a.raised # ""
           THEN /\ artifact' = NoArtifact
                /\ outcome' = fail(a.raised, <<>>, "")
                /\ pc' = "exit"
           ELSE /\ artifact' = a.value
                /\ outcome' = NoOutcome
                /\ pc' = "download"
    /\ UNCHANGED <<p, dest_is, file, remote, origin>>

\* the module is run
Main ==
    /\ pc = "start"
    /\ \E cm \in BOOLEAN : main(cm)
    /\ UNCHANGED prev

\* the module is run again with the same parameters
Rerun ==
    /\ pc = "exit"
    /\ \E cm \in BOOLEAN : main(cm)
    /\ prev' = summary

\* download(): the destination
DownloadDest ==
    /\ pc = "download"
    /\ IF isdir_dest \/ isdir_dirname
       THEN pc' = "resolve" /\ UNCHANGED outcome
       ELSE pc' = "exit" /\ outcome' = fail("Error", <<>>, "")
    /\ UNCHANGED <<p, check_mode, dest_is, file, remote, artifact, url, log, before,
                   prev, origin>>

\* download(): if not artifact.version: _find_latest_version_available
FindLatestVersionAvailable ==
    /\ pc = "resolve"
    /\ IF truthy(artifact.version)
       THEN pc' = "find_uri" /\ UNCHANGED <<artifact, log, outcome>>
       ELSE \E net \in Network :
              LET u == metadata_url(p.repo_url, artifact, FALSE)
                  v == latest_version(remote.versions)
                  exc == IF net # "ok" THEN request_raises(net) ELSE v.raised
              IN  /\ log' = Append(log, GET(u, net))
                  /\ IF exc # ""
                     THEN /\ outcome' = fail(exc, u, "Failed to download maven-metadata.xml")
                          /\ pc' = "exit"
                          /\ UNCHANGED artifact
                     ELSE /\ artifact' = [artifact EXCEPT !.version = v.value]
                          /\ pc' = "find_uri"
                          /\ UNCHANGED outcome
    /\ UNCHANGED <<p, check_mode, dest_is, file, remote, url, before, prev, origin>>

\* download(): find_uri_for_artifact
FindUriForArtifact ==
    /\ pc = "find_uri"
    /\ LET snap == is_snapshot(artifact)
       IN  IF snap.raised # ""
           THEN /\ outcome' = fail(snap.raised, <<>>, "")
                /\ pc' = "exit"
                /\ UNCHANGED <<url, log>>
           ELSE IF snap.value
           THEN \E net \in Network :
                  LET u == metadata_url(p.repo_url, artifact, TRUE)
                      found == find_matching_artifact(p.repo_url, remote.snapshots, artifact)
                      exc == IF net # "ok" THEN request_raises(net) ELSE found.raised
                  IN  /\ log' = Append(log, GET(u, net))
                      /\ IF exc # ""
                         THEN /\ outcome' = fail(exc, u, "Failed to download maven-metadata.xml")
                              /\ pc' = "exit"
                              /\ UNCHANGED url
                         ELSE /\ url' = found.value
                              /\ pc' = "md5"
                              /\ UNCHANGED outcome
           ELSE /\ url' = uri_for_artifact(p.repo_url, artifact, None).value
                /\ pc' = "md5"
                /\ UNCHANGED <<outcome, log>>
    /\ UNCHANGED <<p, check_mode, dest_is, file, remote, artifact, before, prev, origin>>

\* download(): _is_same_md5(dest, url + '.md5')
IsSameMd5 ==
    /\ pc = "md5"
    /\ IF ~exists(file)
       THEN pc' = "content" /\ UNCHANGED <<log, outcome>>
       ELSE \E net \in Network :
              LET u == url \o <<".md5">>
              IN  /\ log' = Append(log, GET(u, net))
                  /\ IF net # "ok"
                     THEN /\ outcome' = fail(request_raises(net), u, "Failed to download MD5")
                          /\ pc' = "exit"
                     ELSE IF same_md5(local_md5(file.data), remote.md5)
                     THEN /\ outcome' = exit_json(FALSE)
                          /\ pc' = "exit"
                     ELSE /\ pc' = "content"
                          /\ UNCHANGED outcome
    /\ UNCHANGED <<p, check_mode, dest_is, file, remote, artifact, url, before, prev,
                   origin>>

\* download(): response = self._request(url, ..., lambda r: r)
RequestContent ==
    /\ pc = "content"
    /\ \E net \in {"ok", "urlopen_error"} :
         /\ log' = Append(log, GET(url, net))
         /\ IF net # "ok"
            THEN /\ outcome' = fail(request_raises(net), url, "Failed to download artifact")
                 /\ pc' = "exit"
            ELSE /\ pc' = "write"
                 /\ UNCHANGED outcome
    /\ UNCHANGED <<p, check_mode, dest_is, file, remote, artifact, url, before, prev,
                   origin>>

\* download(): open(dest, 'w'), response.read(), f.write(...), f.close(), return
WriteDest ==
    /\ pc = "write"
    /\ pc' = "exit"
    /\ \E io \in {"ok", "open_error", "read_error", "write_error"} :
         IF io = "open_error"
         THEN /\ log' = Append(log, FileOp("open", io))
              /\ outcome' = fail("IOError", <<>>, "")
              /\ UNCHANGED file
         ELSE IF io = "read_error"
         THEN /\ log' = log \o <<FileOp("open", "ok"), Read(url, io)>>
              /\ outcome' = fail("socket.error", <<>>, "")
              /\ file' = FileOf(<<>>)
         ELSE IF check_mode
         THEN /\ io = "ok"
              /\ log' = log \o <<FileOp("open", "ok"), Read(url, "ok")>>
              /\ outcome' = exit_json(TRUE)
              /\ file' = FileOf(<<>>)
         ELSE IF io = "write_error"
         THEN /\ log' = log \o <<FileOp("open", "ok"), Read(url, "ok"), FileOp("write", io)>>
              /\ outcome' = fail("IOError", <<>>, "")
              /\ \E k \in 0..(Len(remote.content) - 1) :
                    file' = FileOf(SubSeq(remote.content, 1, k))
         ELSE /\ log' = log \o <<FileOp("open", "ok"), Read(url, "ok"), FileOp("write", "ok")>>
              /\ outcome' = exit_json(TRUE)
              /\ file' = FileOf(remote.content)
    /\ UNCHANGED <<p, check_mode, dest_is, remote, artifact, url, before, prev, origin>>

-----------------------------------------------------------------------------
(* The module run against a repository *)

\* module.params of a run; name excludes group_id and artifact_id
Param(n, v, c, e) ==
    [name |-> n,
     group_id |-> IF n = None THEN <<"g">> ELSE None,
     artifact_id |-> IF n = None THEN <<"a">> ELSE None,
     version |-> v, classifier |-> c, extension |-> e,
     repo_url |-> <<"http://repo", "/">>, dest |-> <<"/tmp/d">>]

\* the parameters the runs are given
Params ==
    { Param(<<"g", ":", "a">>, None, None, <<"jar">>),
      Param(<<"g", ":", "a">>, <<"1.0">>, None, <<"war">>),
      Param(<<"g", ":", "a", ":", "1.0">>, None, None, <<"jar">>),
      Param(<<"g", ":", "a", ":", "2.0", "-", "SNAPSHOT">>, None, None, <<"jar">>),
      Param(<<"g", ":", "a", ":", "2.0", "-", "SNAPSHOT">>, None, <<"src">>, <<"jar">>),
      Param(<<"g", ".", "h", ":", "a", ":", "war", ":", "src", ":", "2.0", "-", "SNAPSHOT">>,
            None, None, <<"jar">>),
      Param(<<"g">>, None, None, <<"jar">>),
      Param(None, None, None, <<"jar">>) }

\* metadata documents of the repository the runs go against
Metadata ==
    { [versions |-> <<>>, snapshots |-> <<>>],
      [versions |-> << <<"1.0">> >>,
       snapshots |-> << [extension |-> <<"jar">>, classifier |-> None, value |-> <<"t1">>] >>],
      [versions |-> << <<"1.0">>, <<"2.0", "-", "SNAPSHOT">> >>,
       snapshots |-> << [extension |-> <<"war">>, classifier |-> <<"src">>, value |-> <<"t1">>],
                        [extension |-> <<"jar">>, classifier |-> <<"src">>, value |-> <<"t2">>] >>] }

Repository(content, md5, m) ==
    [content |-> content, md5 |-> md5, versions |-> m.versions, snapshots |-> m.snapshots]

Init ==
    /\ p \in Params
    /\ check_mode = FALSE
    /\ dest_is \in {"dir", "file", "orphan"}
    /\ file \in {NoFile} \cup {FileOf(c) : c \in Bodies}
    /\ dest_is = "orphan" => file = NoFile
    /\ remote \in {Repository(c, t, m) : c \in Bodies \ {<<>>}, t \in SidecarTexts,
                                          m \in Metadata}
    /\ pc = "start"
    /\ artifact = NoArtifact
    /\ url = <<>>
    /\ log = <<>>
    /\ outcome = NoOutcome
    /\ before = file
    /\ prev = [succeeded |-> FALSE, url |-> <<>>]
    /\ origin = p.name

Next ==
    \/ Main
    \/ Rerun
    \/ DownloadDest
    \/ FindLatestVersionAvailable
    \/ FindUriForArtifact
    \/ IsSameMd5
    \/ RequestContent
    \/ WriteDest

Spec == Init /\ [][Next]_vars

-----------------------------------------------------------------------------
(* Version resolution: one run against every metadata document within the bounds *)

InitResolve ==
    /\ p \in Params
    /\ check_mode = FALSE
    /\ dest_is = "dir"
    /\ file \in {NoFile, FileOf(<<"b">>)}
    /\ remote \in {Repository(<<"b">>, local_md5(<<"b">>), [versions |-> v, snapshots |-> s])
                    : v \in VersionLists, s \in {l \in SnapshotLists : Len(l) <= 1}}
                 \cup {Repository(<<"b">>, local_md5(<<"b">>), [versions |-> <<>>, snapshots |-> s])
                    : s \in SnapshotLists}
    /\ pc = "start"
    /\ artifact = NoArtifact
    /\ url = <<>>
    /\ log = <<>>
    /\ outcome = NoOutcome
    /\ before = file
    /\ prev = [succeeded |-> FALSE, url |-> <<>>]
    /\ origin = p.name

NextResolve ==
    \/ Main
    \/ DownloadDest
    \/ FindLatestVersionAvailable
    \/ FindUriForArtifact
    \/ IsSameMd5
    \/ RequestContent
    \/ WriteDest

SpecResolve == InitResolve /\ [][NextResolve]_vars

-----------------------------------------------------------------------------
(* The coordinate model on its own: every coordinate string of up to MaxLen tokens *)

CoordTokens == {":", "x", "jar"}
CoordStrings == UNION {[1..n -> CoordTokens] : n \in 0..MaxLen}

\* Artifact.parse(input) is called
Parse ==
    /\ pc = "coord"
    /\ LET a == Artifact_parse(p.name)
       IN  /\ artifact' = IF a.raised # "" THEN NoArtifact ELSE a.value
           /\ outcome' = [NoOutcome EXCEPT !.raised = a.raised]
    /\ pc' = "parsed"
    /\ UNCHANGED <<p, check_mode, dest_is, file, remote, url, log, before, prev, origin>>

\* main() builds the Artifact from module.params
Ingest ==
    /\ pc = "coord"
    /\ LET a == main_artifact(p)
       IN  /\ artifact' = IF a.raised # "" THEN NoArtifact ELSE a.value
           /\ outcome' = [NoOutcome EXCEPT !.raised = a.raised]
    /\ pc' = "ingested"
    /\ UNCHANGED <<p, check_mode, dest_is, file, remote, url, log, before, prev, origin>>

\* str(artifact) is called on the Artifact built
Str ==
    /\ pc \in {"parsed", "ingested"}
    /\ outcome.raised = ""
    /\ LET t == Artifact_str(artifact)
       IN  outcome' = [NoOutcome EXCEPT !.raised = t.raised,
                                        !.name = IF t.raised # "" THEN <<>> ELSE t.value]
    /\ pc' = IF pc = "parsed" THEN "parsed_str" ELSE "ingested_str"
    /\ UNCHANGED <<p, check_mode, dest_is, file, remote, artifact, url, log, before, prev,
                   origin>>

\* the string printed is given as the name of a second run
Again ==
    /\ pc = "ingested_str"
    /\ outcome.raised = ""
    /\ p.name = origin
    /\ p' = [p EXCEPT !.name = outcome.name]
    /\ pc' = "coord"
    /\ artifact' = NoArtifact
    /\ outcome' = NoOutcome
    /\ UNCHANGED <<check_mode, dest_is, file, remote, url, log, before, prev, origin>>

InitCoord ==
    /\ p \in {Param(s, None, None, e) : s \in CoordStrings, e \in {<<"jar">>, <<"war">>}}
    /\ check_mode = FALSE
    /\ dest_is = "dir"
    /\ file = NoFile
    /\ remote = Repository(<<"b">>, local_md5(<<"b">>), [versions |-> <<>>, snapshots |-> <<>>])
    /\ pc = "coord"
    /\ artifact = NoArtifact
    /\ url = <<>>
    /\ log = <<>>
    /\ outcome = NoOutcome
    /\ before = file
    /\ prev = [succeeded |-> FALSE, url |-> <<>>]
    /\ origin = p.name

NextCoord ==
    \/ Parse
    \/ Ingest
    \/ Str
    \/ Again

SpecCoord == InitCoord /\ [][NextCoord]_vars

-----------------------------------------------------------------------------
(* Properties of the download, checked under Spec *)

\* the coordinate main() hands to download(), before any resolution
requested == main_artifact(p).value

\* download() was entered by the invocation
downloading == pc # "start" /\ artifact # NoArtifact

\* the step of download() a log entry belongs to
Rank(e) ==
    IF e.op = "open" THEN 5
    ELSE IF e.op = "read" THEN 6
    ELSE IF e.op = "write" THEN 7
    ELSE IF url # <<>> /\ e.target = url THEN 4
    ELSE IF url # <<>> /\ e.target = url \o <<".md5">> THEN 3
    ELSE IF e.target = metadata_url(p.repo_url, artifact, TRUE) THEN 2
    ELSE IF e.target = metadata_url(p.repo_url, artifact, FALSE) THEN 1
    ELSE 0

Logged(r) == \E k \in 1..Len(log) : Rank(log[k]) = r
LoggedBefore(r, k) == \E j \in 1..(k - 1) : Rank(log[j]) = r
LoggedOkBefore(r, k) == \E j \in 1..(k - 1) : Rank(log[j]) = r /\ log[j].result = "ok"

\* every step is logged at most once and in the order of the steps
Ordered ==
    /\ \A k \in 1..Len(log) : Rank(log[k]) # 0
    /\ \A j, k \in 1..Len(log) : j < k => Rank(log[j]) < Rank(log[k])

\* C1: a dry run ends with the target file as it was when the run started (same
\* existence, same contents), and a dry run that reports a change has read the body
C1_DryRunLeavesFile ==
    (pc = "exit" /\ check_mode) =>
        /\ file = before
        /\ outcome.changed => Logged(6)

\* C2: a run that is not a dry run ends with the target file either holding the whole
\* artifact or exactly as it was when the run started, whichever step failed
C2_NoPartialSuccess ==
    (pc = "exit" /\ ~check_mode) => (file = before \/ file = FileOf(remote.content))

\* a run that returned a result fetched no artifact content and left the file alone
Untouched ==
    /\ ~outcome.changed
    /\ ~Logged(4) /\ ~Logged(5) /\ ~Logged(7)
    /\ file = before

\* C3 as claimed: after a download that was not a dry run and succeeded, a second
\* download from the same URL of the unchanged repository that returns a result
\* reports changed=false, requests no content and does not open the file
C3_SecondDownloadUnchanged ==
    (pc = "exit" /\ outcome.status = "exit_json" /\ prev.succeeded /\ prev.url = url)
        => Untouched

\* C3 amended: the second download is unchanged when the text served at {uri}.md5 is
\* exactly the hex digest of the artifact; and whenever the digest of the local file
\* equals the text of the sidecar, the file is left alone, no content is requested and
\* a run that returns a result reports changed=false
C3_Idempotent ==
    pc = "exit" =>
        /\ (/\ outcome.status = "exit_json" /\ prev.succeeded /\ prev.url = url
            /\ remote.md5 = local_md5(remote.content)) => Untouched
        /\ (downloading /\ before.exists /\ local_md5(before.data) = remote.md5) =>
              /\ file = before
              /\ ~Logged(4) /\ ~Logged(5) /\ ~Logged(7)
              /\ outcome.status = "exit_json" => ~outcome.changed

\* a second download found the file written by the first and left it alone
C3_Witness ==
    /\ pc = "exit" /\ outcome.status = "exit_json" /\ ~outcome.changed
    /\ prev.succeeded /\ prev.url = url /\ url # <<>>
    /\ remote.md5 = local_md5(remote.content)
    /\ file = FileOf(remote.content)
    /\ Logged(3)

\* C4: when dest is no directory and has no parent directory, download() fails with the
\* destination error and has requested nothing, written nothing and left the version
\* of the coordinate as it was given
C4_NoParentFailsFirst ==
    dest_is = "orphan" =>
        /\ pc \in {"start", "download", "exit"}
        /\ log = <<>>
        /\ file = before
        /\ (pc = "exit" /\ downloading) =>
              /\ outcome.status = "fail_json" /\ outcome.raised = "Error"
              /\ artifact = requested

\* a coordinate without a version failed on the destination
C4_Witness ==
    /\ dest_is = "orphan" /\ pc = "exit" /\ downloading
    /\ outcome.raised = "Error"
    /\ ~truthy(artifact.version)

\* C9: a request that failed in transport is the last thing the run did, the run
\* ended in a downloader error carrying its URL, returned no result and wrote no file
C9_TransportFailureAborts ==
    pc = "exit" =>
        \A k \in 1..Len(log) :
            (log[k].op \in {"GET", "read"} /\ log[k].result # "ok") =>
                /\ k = Len(log)
                /\ outcome.status = "fail_json" /\ outcome.raised = "DownloaderError"
                /\ outcome.url = log[k].target
                /\ file = before

\* the steps the claim and its amendment agree on: each step at most once and in order,
\* the latest-version fetch exactly for a coordinate given without a version, the
\* snapshot fetch only for a snapshot version, the file opened only after the content
\* request succeeded
StepsInOrder ==
    /\ Ordered
    /\ Logged(1) => ~truthy(requested.version)
    /\ (pc \in {"find_uri", "md5", "content", "write"} /\ ~truthy(requested.version))
          => Logged(1)
    /\ Logged(2) => (artifact.version # None /\ endswith(artifact.version, "SNAPSHOT"))
    /\ \A k \in 1..Len(log) : Rank(log[k]) = 5 => LoggedOkBefore(4, k)

\* C10 as claimed: the steps come in order and every fetch of the artifact content is
\* preceded by a fetch of the checksum sidecar
C10_ChecksumBeforeContent ==
    /\ StepsInOrder
    /\ \A k \in 1..Len(log) : Rank(log[k]) = 4 => LoggedBefore(3, k)

\* C10 amended: the steps come in order and a fetch of the artifact content is preceded
\* by a fetch of the checksum sidecar exactly when the target file existed; when it did
\* not, the sidecar is not fetched at all
C10_ChecksumOnlyForExistingFile ==
    /\ StepsInOrder
    /\ \A k \in 1..Len(log) : Rank(log[k]) = 4 => (LoggedOkBefore(3, k) <=> before.exists)
    /\ Logged(3) => before.exists

\* a run went through every step: both metadata fetches, sidecar, content, open, write
C10_Witness ==
    /\ pc = "exit" /\ outcome.changed /\ before.exists
    /\ Len(log) = 7

-----------------------------------------------------------------------------
(* Properties of version resolution, checked under SpecResolve *)

\* the latest-version metadata was fetched and read, and nothing was requested after it
LatestFetchedLast ==
    /\ Len(log) = 1
    /\ log[1] = GET(metadata_url(p.repo_url, artifact, FALSE), "ok")

\* C5: latest-version resolution sets the version to the last <version> element, and on
\* a document without <version> elements the run fails with ArtifactError
C5_EmptyVersionsIsArtifactError ==
    LatestFetchedLast =>
        IF remote.versions = <<>>
        THEN pc = "exit" /\ outcome.status = "fail_json" /\ outcome.raised = "ArtifactError"
        ELSE artifact.version = remote.versions[Len(remote.versions)]

\* the snapshot metadata of the coordinate was fetched and read
SnapshotFetched ==
    \E k \in 1..Len(log) : log[k] = GET(metadata_url(p.repo_url, artifact, TRUE), "ok")

\* a <snapshotVersion> the coordinate asks for: its extension, and its classifier when
\* the coordinate has one
Matches(e) ==
    /\ e.extension = artifact.extension
    /\ truthy(artifact.classifier) => e.classifier = artifact.classifier

\* {base}/{group-as-path}/{artifact}/{version}/{artifact}-{timestamp}[-{classifier}].{extension}
SnapshotUri(timestamp) ==
    <<"http://repo", "/">> \o replace(artifact.group_id, ".", "/")
        \o <<"/">> \o artifact.artifact_id \o <<"/">> \o artifact.version
        \o <<"/">> \o artifact.artifact_id \o <<"-">> \o timestamp
        \o (IF truthy(artifact.classifier) THEN <<"-">> \o artifact.classifier ELSE <<>>)
        \o <<".">> \o artifact.extension

\* C6: once the snapshot metadata is read, the URL is built from the value of the first
\* element, in document order, that the coordinate asks for; when no element does, the
\* run has failed with ArtifactError and there is no URL (nor is there one when that
\* first element has no value)
C6_FirstMatchingSnapshot ==
    SnapshotFetched =>
        LET elems == remote.snapshots
            matching == {i \in 1..Len(elems) : Matches(elems[i])}
        IN  IF matching = {}
            THEN /\ pc = "exit" /\ outcome.status = "fail_json"
                 /\ outcome.raised = "ArtifactError"
                 /\ url = <<>>
            ELSE LET first == CHOOSE i \in matching : \A j \in matching : i <= j
                 IN  IF truthy(elems[first].value)
                     THEN url = SnapshotUri(elems[first].value)
                     ELSE /\ pc = "exit" /\ outcome.raised = "ArtifactError"
                          /\ url = <<>>

\* two elements with different values match, and the URL was built
C6_Witness ==
    /\ SnapshotFetched /\ pc = "md5"
    /\ Len(remote.snapshots) = 2
    /\ Matches(remote.snapshots[1]) /\ Matches(remote.snapshots[2])
    /\ truthy(remote.snapshots[1].value) /\ truthy(remote.snapshots[2].value)
    /\ remote.snapshots[1].value # remote.snapshots[2].value
    /\ truthy(artifact.classifier)

-----------------------------------------------------------------------------
(* Properties of the coordinate model, checked under SpecCoord *)

Colons(s, upto) == Cardinality({j \in 1..upto : s[j] = ":"})
NumSegments(s) == 1 + Colons(s, Len(s))

\* where the k-th colon of s is; 0 and Len(s) + 1 bound the first and last segment
ColonPos(s, k) ==
    IF k = 0 THEN 0
    ELSE IF k = NumSegments(s) THEN Len(s) + 1
    ELSE CHOOSE i \in 1..Len(s) : s[i] = ":" /\ Colons(s, i) = k

\* the k-th colon-separated segment of s
Segment(s, k) == SubSeq(s, ColonPos(s, k - 1) + 1, ColonPos(s, k) - 1)

Malformed(s) == NumSegments(s) < 2 \/ Segment(s, 1) = <<>> \/ Segment(s, 2) = <<>>

\* the table of segment counts, with what a string without extension segment gives
ParsedByTable(no_extension) ==
    LET s == p.name
        n == NumSegments(s)
    IN  IF Malformed(s)
        THEN outcome.raised = "ArtifactError" /\ artifact = NoArtifact
        ELSE /\ outcome.raised = ""
             /\ n <= 5 =>
                  artifact = [group_id |-> Segment(s, 1), artifact_id |-> Segment(s, 2),
                              version |-> IF n >= 3 THEN Segment(s, n) ELSE None,
                              classifier |-> IF n = 5 THEN Segment(s, 4) ELSE None,
                              extension |-> IF n >= 4 THEN Segment(s, 3) ELSE no_extension]

\* C7 as claimed: Artifact.parse assigns the fields by the number of segments, the
\* extension of a string without extension segment is "jar", and a string of fewer than
\* 2 segments or with an empty group or artifact gives an error and no coordinate
C7_ParseAssignsBySegmentCount ==
    pc = "parsed" => ParsedByTable(<<"jar">>)

\* C7 amended: Artifact.parse assigns the fields by the number of segments and leaves
\* the extension of a string without extension segment unset; main() then sets an
\* unset or empty extension to the extension parameter, whose default is "jar"
C7_ParseLeavesExtensionToMain ==
    /\ pc = "parsed" => ParsedByTable(None)
    /\ pc = "ingested" =>
          LET s == p.name
              n == NumSegments(s)
          IN  IF Malformed(s)
              THEN outcome.raised = "ArtifactError" /\ artifact = NoArtifact
              ELSE /\ outcome.raised = ""
                   /\ n <= 5 =>
                        /\ artifact.group_id = Segment(s, 1)
                        /\ artifact.artifact_id = Segment(s, 2)
                        /\ artifact.extension =
                              IF n >= 4 /\ Segment(s, 3) # <<>> THEN Segment(s, 3)
                              ELSE p.extension

\* a string of five non-empty segments was parsed
C7_Witness ==
    /\ pc = "parsed" /\ outcome.raised = ""
    /\ NumSegments(p.name) = 5
    /\ \A k \in 1..5 : Segment(p.name, k) # <<>>
    /\ artifact.classifier # artifact.extension

\* C8 as claimed: a string of 2 or 3 segments that Artifact.parse accepts is printed by
\* __str__ as the string itself
C8_ParseThenStr ==
    (pc = "parsed_str" /\ NumSegments(p.name) \in {2, 3}) =>
        outcome.raised = "" /\ outcome.name = p.name

\* C8 amended: with the extension parameter at its default, a string of 2 or 3 non-empty
\* segments that main() makes an Artifact of is printed as the string itself, and what
\* is printed for any string of 2 or 3 segments is printed as itself when given again
C8_RoundTripThroughMain ==
    (pc = "ingested_str" /\ NumSegments(p.name) \in {2, 3} /\ p.extension = <<"jar">>) =>
        /\ outcome.raised = ""
        /\ (\A k \in 1..NumSegments(p.name) : Segment(p.name, k) # <<>>)
              => outcome.name = p.name
        /\ p.name # origin => outcome.name = p.name

\* a string of three non-empty segments was printed as itself
C8_Witness ==
    /\ pc = "ingested_str" /\ p.extension = <<"jar">>
    /\ NumSegments(p.name) = 3
    /\ \A k \in 1..3 : Segment(p.name, k) # <<>>
    /\ outcome.name = p.name /\ p.name = origin

====
